---- MODULE Spec2Model ----
(***************************************************************************)
(* Model of src/main.rs: the validation predicates, the Validator         *)
(* composite, the read_input prompting loop and main.                      *)
(*                                                                         *)
(* A string is a sequence of characters; a character is a one-element      *)
(* token ("a", "1", "@", ...).  Three tokens stand for characters outside  *)
(* ASCII: "U+00BD" (VULGAR FRACTION ONE HALF, category No), "U+2167"       *)
(* (ROMAN NUMERAL EIGHT, category Nl) and "U+0663" (ARABIC-INDIC DIGIT     *)
(* THREE, category Nd).  "0xFF" is a byte that is not valid UTF-8.         *)
(***************************************************************************)
EXTENDS Integers, Sequences, FiniteSets, TLC

VARIABLES
    pc,          \* position of the program: "prompt", "read", "print", "done", "aborted", "call", "ret"
    call,        \* the read_input call being run: "name", "email", "age" (main) or "test" (tests)
    T,           \* the target type of the running read_input: "String" or "u32"
    validations, \* Validator.validations of the validator in use
    stdin,       \* the unread characters of the input source
    buffer,      \* read_input's line buffer
    out,         \* the lines printed on standard output, in order
    name,        \* main's local `name`
    email,       \* main's local `email`
    age,         \* main's local `age`
    fn,          \* the predicate or method applied (pure calls)
    arg,         \* its argument
    ret,         \* its result
    src0,        \* history: the input source when the running read_input was entered
    hist,        \* history: one record per completed iteration of read_input
    eofReads     \* history: the number of reads made at end of input

vars == <<pc, call, T, validations, stdin, buffer, out, name, email, age,
          fn, arg, ret, src0, hist, eofReads>>

(***************************************************************************)
(* Bounds of the model.                                                    *)
(***************************************************************************)
MaxLines == 4
MaxTestLines == 2
MaxEofIters == 2
MaxLen == 5
MaxPreds == 2

(***************************************************************************)
(* Characters.                                                             *)
(***************************************************************************)
DigitChars == <<"0", "1", "2", "3", "4", "5", "6", "7", "8", "9">>

AsciiDigits == {DigitChars[i] : i \in 1..10}

Letters ==
    {"J", "a", "b", "c", "d", "e", "f", "g", "h", "i", "j", "k", "l", "m",
     "n", "o", "p", "q", "r", "s", "t", "u", "v", "w", "x", "y", "z"}

\* char::is_whitespace
is_whitespace(c) == c \in {" ", "\t", "\n", "\r"}

\* (variant: char::is_ascii_digit in place of char::is_numeric)
is_numeric_ascii_only(c) == c \in AsciiDigits

\* char::is_numeric: general categories Nd, Nl and No
is_numeric(c) == c \in AsciiDigits \cup {"U+0663", "U+2167", "U+00BD"}

\* the regex class \w: Alphabetic, M, Nd, Pc, Join_Control
is_word(c) == c \in Letters \cup AsciiDigits \cup {"_", "U+0663", "U+2167"}

\* the regex class [\w\.-]
is_email_class(c) == is_word(c) \/ c = "." \/ c = "-"

\* char::to_digit(10): the digit's value, or -1
to_digit(c) ==
    IF c \in AsciiDigits THEN (CHOOSE d \in 0..9 : DigitChars[d + 1] = c) ELSE -1

(***************************************************************************)
(* ValidationMethods.                                                      *)
(***************************************************************************)
RECURSIVE chars_any_numeric(_, _)
\* name.chars().any(|c| c.is_numeric()), from character i on
chars_any_numeric(s, i) ==
    IF i > Len(s) THEN FALSE
    ELSE IF is_numeric(s[i]) THEN TRUE
    ELSE chars_any_numeric(s, i + 1)

validate_name_ascii_digits(s) == ~(\E i \in 1..Len(s) : is_numeric_ascii_only(s[i]))

validate_name(s) == ~chars_any_numeric(s, 1)

(***************************************************************************)
(* The regex ^[\w\.-]+@[\w\.-]+\.\w+$ as an automaton.  States:            *)
(*   0 start, 1 in the local part, 2 after '@', 3 in the domain,           *)
(*   4 after the domain's '.', 5 in the last label (accepting).            *)
(***************************************************************************)
regex_step(q, c) ==
    CASE q = 0 -> IF is_email_class(c) THEN {1} ELSE {}
      [] q = 1 -> (IF is_email_class(c) THEN {1} ELSE {}) \cup (IF c = "@" THEN {2} ELSE {})
      [] q = 2 -> IF is_email_class(c) THEN {3} ELSE {}
      [] q = 3 -> (IF is_email_class(c) THEN {3} ELSE {}) \cup (IF c = "." THEN {4} ELSE {})
      [] q = 4 -> IF is_word(c) THEN {5} ELSE {}
      [] q = 5 -> IF is_word(c) THEN {5} ELSE {}

RECURSIVE regex_run(_, _, _)
\* the set of automaton states after reading s from character i on
regex_run(Q, s, i) ==
    IF i > Len(s) THEN Q
    ELSE regex_run(UNION {regex_step(q, s[i]) : q \in Q}, s, i + 1)

RECURSIVE regex_run_unanchored(_, _, _, _)
\* (variant) the same pattern without ^ and $: a match may start and end anywhere
regex_run_unanchored(Q, s, i, found) ==
    IF i > Len(s) THEN found \/ 5 \in Q
    ELSE regex_run_unanchored(UNION {regex_step(q, s[i]) : q \in Q \cup {0}},
                              s, i + 1, found \/ 5 \in Q)

\* (variant: the pattern without its anchors)
validate_email_unanchored(s) == regex_run_unanchored({0}, s, 1, FALSE)

validate_email(s) == 5 \in regex_run({0}, s, 1)

not_empty(s) == Len(s) # 0

PredNames == {"not_empty", "validate_name", "validate_email"}

\* calling a fn(&str) -> bool of ValidationMethods
Apply(p, s) ==
    CASE p = "validate_name" -> validate_name(s)
      [] p = "validate_email" -> validate_email(s)
      [] p = "not_empty" -> not_empty(s)

(***************************************************************************)
(* Validator.                                                              *)
(***************************************************************************)
RECURSIVE iter_all(_, _, _)
\* self.validations.iter().all(|validation| validation(input)), from index i on
iter_all(v, s, i) ==
    IF i > Len(v) THEN TRUE
    ELSE IF ~Apply(v[i], s) THEN FALSE
    ELSE iter_all(v, s, i + 1)

\* (variant: only the first predicate is consulted)
validate_first_only(v, s) == IF Len(v) = 0 THEN TRUE ELSE Apply(v[1], s)

validate(v, s) == iter_all(v, s, 1)

\* validator_factory!(a, b, ...) expands to Validator::new(vec![...])
validator_factory(names) == names

(***************************************************************************)
(* str::trim, str::parse and the Display of u32.                           *)
(***************************************************************************)
RECURSIVE trim_start(_)
trim_start(s) ==
    IF s # <<>> /\ is_whitespace(Head(s)) THEN trim_start(Tail(s)) ELSE s

RECURSIVE trim_end(_)
trim_end(s) ==
    IF s # <<>> /\ is_whitespace(s[Len(s)]) THEN trim_end(SubSeq(s, 1, Len(s) - 1)) ELSE s

\* (variant: trim_start in place of trim)
trim_start_only(s) == trim_start(s)

trim(s) == trim_end(trim_start(s))

\* A u32 is kept as two 16-bit limbs <<hi, lo>>, its value hi * 65536 + lo, so
\* that the arithmetic of the checked operations stays exact.
u32_zero == <<0, 0>>

\* acc.checked_mul(10) and then .checked_add(d): the new limbs; hi is 65536 or
\* more exactly when the u32 overflows
mul10_add(acc, d) ==
    LET lo == acc[2] * 10 + d
    IN <<acc[1] * 10 + (lo \div 65536), lo % 65536>>

RECURSIVE from_str_digits(_, _, _)
\* the digit loop of u32::from_str; <<-1, -1>> stands for Err(ParseIntError).
\* (next is bound by a set so that it is computed once per digit.)
from_str_digits(s, i, acc) ==
    IF i > Len(s) THEN acc
    ELSE IF to_digit(s[i]) = -1 THEN <<-1, -1>>
    ELSE CHOOSE r \in {IF next[1] >= 65536 THEN <<-1, -1>>
                       ELSE from_str_digits(s, i + 1, next) :
                           next \in {mul10_add(acc, to_digit(s[i]))}} : TRUE

\* <u32 as FromStr>::from_str: the value, or <<-1, -1>> for Err
u32_from_str(s) ==
    IF s = <<>> THEN <<-1, -1>>
    ELSE IF s = <<"+">> \/ s = <<"-">> THEN <<-1, -1>>
    ELSE IF s[1] = "+" THEN from_str_digits(Tail(s), 1, u32_zero)
    ELSE from_str_digits(s, 1, u32_zero)

\* a value of type T: a String carries str, a u32 carries num
StringValue(s) == [ty |-> "String", str |-> s, num |-> u32_zero]
U32Value(n) == [ty |-> "u32", str |-> <<>>, num |-> n]
NoValue == [ty |-> "Err", str |-> <<>>, num |-> u32_zero]

\* input.parse::<T>(): Ok(value), or NoValue for Err
parse(ty, s) ==
    IF ty = "String" THEN StringValue(s)
    ELSE IF u32_from_str(s) = <<-1, -1>> THEN NoValue
    ELSE U32Value(u32_from_str(s))

\* n / 10 and n % 10 on limbs
div10(n) ==
    LET r == (n[1] % 10) * 65536 + n[2]
    IN <<n[1] \div 10, r \div 10>>
mod10(n) == ((n[1] % 10) * 65536 + n[2]) % 10

RECURSIVE to_string(_)
\* the Display of a u32: its decimal digits, no sign, no leading zero
to_string(n) ==
    IF n[1] = 0 /\ n[2] < 10 THEN <<DigitChars[n[2] + 1]>>
    ELSE CHOOSE r \in {Append(to_string(q), DigitChars[mod10(n) + 1]) : q \in {div10(n)}} : TRUE

(***************************************************************************)
(* BufRead::read_line on the input source.                                 *)
(***************************************************************************)
\* the length of the first line of src, its "\n" included (src non-empty)
line_end(src) ==
    IF \E i \in 1..Len(src) : src[i] = "\n"
    THEN CHOOSE i \in 1..Len(src) : src[i] = "\n" /\ \A j \in 1..(i - 1) : src[j] # "\n"
    ELSE Len(src)

\* read_line(&mut buf): at end of input Ok(0) and nothing appended; bytes that
\* are not UTF-8 give Err; otherwise the line, its "\n" included, is appended
read_line(src, buf) ==
    IF src = <<>> THEN [ok |-> TRUE, buf |-> buf, rest |-> src]
    ELSE LET n == line_end(src)
             bytes == SubSeq(src, 1, n)
         IN IF \E i \in 1..n : bytes[i] = "0xFF"
            THEN [ok |-> FALSE, buf |-> buf, rest |-> SubSeq(src, n + 1, Len(src))]
            ELSE [ok |-> TRUE, buf |-> buf \o bytes, rest |-> SubSeq(src, n + 1, Len(src))]

\* (variant: the buffer is created once, before the loop)
new_buffer_reused(old) == old

\* let mut buffer = String::new(), once per iteration
new_buffer(old) == <<>>

(***************************************************************************)
(* The input sources the model draws from: up to n pieces, concatenated.   *)
(***************************************************************************)
\* a valid name, with leading whitespace
LineJohn == <<" ", "J", "o", "h", "n", "\n">>
\* a name with digits
LineJohn123 == <<"J", "o", "h", "n", "1", "2", "3", "\n">>
\* a valid email (and a valid name)
LineEmail == <<"a", "@", "b", ".", "c", "\n">>
\* a number
Line42 == <<"4", "2", "\n">>
\* a number with a sign, a leading zero and whitespace around it
LinePlus7 == <<" ", "+", "0", "7", " ", "\n">>
\* a whitespace-only line
LineBlank == <<" ", "\n">>
\* u32::MAX + 1
LineOverflow == <<"4", "2", "9", "4", "9", "6", "7", "2", "9", "6", "\n">>
\* u32::MAX, not terminated by a newline
LineMaxNoNewline == <<"4", "2", "9", "4", "9", "6", "7", "2", "9", "5">>
\* a line that is not valid UTF-8
LineNotUtf8 == <<"0xFF", "\n">>

\* the pieces main's input is made of
MainChunks ==
    {LineJohn, LineJohn123, LineEmail, LinePlus7, LineBlank, LineOverflow, LineNotUtf8}

\* the pieces the tests' input is made of
TestChunks == MainChunks \cup {Line42, LineMaxNoNewline}

RECURSIVE Concat(_)
Concat(ss) == IF ss = <<>> THEN <<>> ELSE Head(ss) \o Concat(Tail(ss))

Sources(C, n) == {Concat(ss) : ss \in UNION {[1..k -> C] : k \in 0..n}}

\* the validators the tests' read_input is run with
TestValidators ==
    {validator_factory(<<>>),
     validator_factory(<<"not_empty">>),
     validator_factory(<<"validate_name">>),
     validator_factory(<<"not_empty", "validate_name">>),
     validator_factory(<<"not_empty", "validate_email">>)}

(***************************************************************************)
(* main and read_input.                                                    *)
(***************************************************************************)
\* the read_input calls of main, in program order
\* (variant: the age is asked for before the email)
MainCallsAgeBeforeEmail == <<"name", "age", "email">>

MainCalls == <<"name", "email", "age">>

\* the type parameter T of each call of main
TypeOf(c) == IF c = "age" THEN "u32" ELSE "String"

\* the validator each call of main builds
\* (variant: the age validator also lists validate_name)
ValidatorOfAgeWithName(c) ==
    CASE c = "name" -> validator_factory(<<"not_empty", "validate_name">>)
      [] c = "email" -> validator_factory(<<"not_empty", "validate_email">>)
      [] c = "age" -> validator_factory(<<"not_empty", "validate_name">>)

ValidatorOf(c) ==
    CASE c = "name" -> validator_factory(<<"not_empty", "validate_name">>)
      [] c = "email" -> validator_factory(<<"not_empty", "validate_email">>)
      [] c = "age" -> validator_factory(<<"not_empty">>)

\* the prompt argument of each call
PromptOf(c) ==
    CASE c = "name" -> <<"Enter name:">>
      [] c = "email" -> <<"Enter email:">>
      [] c = "age" -> <<"Enter age:">>
      [] c = "test" -> <<"Enter name:">>

MsgInvalid == <<"Invalid input, please try again.">>
MsgConvert == <<"Failed to convert value, please try again.">>

\* println!("Name: {}, Email: {}, Age: {}", user.name, user.email, user.age)
FormatUser(n, e, a) ==
    <<"Name: ">> \o n \o <<", Email: ">> \o e \o <<", Age: ">> \o to_string(a)

\* the branch one iteration of read_input takes, given the parse result and
\* the validator's verdict
\* (variant: the two diagnostics are swapped)
BranchSwapped(value, valid) ==
    IF value # NoValue THEN (IF valid THEN "return" ELSE "convert") ELSE "invalid"

Branch(value, valid) ==
    IF value # NoValue THEN (IF valid THEN "return" ELSE "invalid") ELSE "convert"

\* `loop`: whether another iteration follows the n-th rejected line
\* (variant: the loop gives up after two rejected lines)
LoopContinuesCapped(n) == n < 2

LoopContinues(n) == TRUE

\* the rejected lines of the running call so far
Rejected == Len(SelectSeq(hist, LAMBDA h : h.call = call /\ h.outcome \in {"invalid", "convert"}))

\* the history record of an iteration: r the result of its read_line, value
\* the result of its parse
Record(r, value, outcome) ==
    [call |-> call, ty |-> T, v |-> validations, eof |-> (stdin = <<>>),
     before |-> stdin, raw |-> r.buf, validated |-> (r.ok /\ value # NoValue),
     outcome |-> outcome]

Pure == <<fn, arg, ret>>

\* println!("{}", prompt)
PrintPrompt ==
    /\ pc = "prompt"
    /\ stdin = <<>> => eofReads < MaxEofIters
    /\ out' = Append(out, PromptOf(call))
    /\ pc' = "read"
    /\ UNCHANGED <<call, T, validations, stdin, buffer, name, email, age,
                   src0, hist, eofReads, Pure>>

\* let mut buffer = String::new(); stdin.read_line(&mut buffer).expect(...) panics
ReadFails ==
    /\ pc = "read"
    /\ \E r \in {read_line(stdin, new_buffer(buffer))} :
          /\ ~r.ok
          /\ pc' = "aborted"
          /\ stdin' = r.rest
          /\ buffer' = r.buf
          /\ hist' = Append(hist, Record(r, NoValue, "panic"))
    /\ UNCHANGED <<call, T, validations, out, name, email, age, src0, eofReads, Pure>>

\* the line is read, its trimmed text parses and passes the validator:
\* read_input returns the value, and main goes on with it
ReadReturns ==
    /\ pc = "read"
    /\ \E r \in {read_line(stdin, new_buffer(buffer))} :
       \E input \in {trim(r.buf)} :
       \E value \in {parse(T, input)} :
          /\ r.ok
          /\ Branch(value, value # NoValue /\ validate(validations, input)) = "return"
          /\ stdin' = r.rest
          /\ buffer' = r.buf
          /\ hist' = Append(hist, Record(r, value, "return"))
          /\ src0' = r.rest
          /\ name' = IF call = "name" THEN value.str ELSE name
          /\ email' = IF call = "email" THEN value.str ELSE email
          /\ age' = IF call = "age" THEN value.num ELSE age
          /\ ret' = IF call = "test" THEN value ELSE ret
    /\ eofReads' = IF stdin = <<>> THEN eofReads + 1 ELSE eofReads
    /\ IF call = "test"
       THEN /\ pc' = "done"
            /\ UNCHANGED <<call, T, validations>>
       ELSE LET i == CHOOSE k \in 1..Len(MainCalls) : MainCalls[k] = call
            IN IF i < Len(MainCalls)
               THEN /\ pc' = "prompt"
                    /\ call' = MainCalls[i + 1]
                    /\ T' = TypeOf(MainCalls[i + 1])
                    /\ validations' = ValidatorOf(MainCalls[i + 1])
               ELSE /\ pc' = "print"
                    /\ UNCHANGED <<call, T, validations>>
    /\ UNCHANGED <<out, fn, arg>>

\* the line is read and rejected: one diagnostic, then the next iteration
ReadRejects ==
    /\ pc = "read"
    /\ \E r \in {read_line(stdin, new_buffer(buffer))} :
       \E input \in {trim(r.buf)} :
       \E value \in {parse(T, input)} :
       \E b \in {Branch(value, value # NoValue /\ validate(validations, input))} :
          /\ r.ok
          /\ b # "return"
          /\ stdin' = r.rest
          /\ buffer' = r.buf
          /\ out' = Append(out, IF b = "invalid" THEN MsgInvalid ELSE MsgConvert)
          /\ hist' = Append(hist, Record(r, value, b))
    /\ eofReads' = IF stdin = <<>> THEN eofReads + 1 ELSE eofReads
    /\ pc' = IF LoopContinues(Rejected + 1) THEN "prompt" ELSE "aborted"
    /\ UNCHANGED <<call, T, validations, name, email, age, src0, Pure>>

\* User::new(name, email, age) and the final println!
PrintUser ==
    /\ pc = "print"
    /\ out' = Append(out, FormatUser(name, email, age))
    /\ pc' = "done"
    /\ UNCHANGED <<call, T, validations, stdin, buffer, name, email, age,
                   src0, hist, eofReads, Pure>>

InitCommon ==
    /\ pc = "prompt"
    /\ buffer = <<>>
    /\ out = <<>>
    /\ name = <<>>
    /\ email = <<>>
    /\ age = u32_zero
    /\ fn = "none"
    /\ arg = <<>>
    /\ ret = NoValue
    /\ src0 = stdin
    /\ hist = <<>>
    /\ eofReads = 0

\* main, on any input source
InitMain ==
    /\ call = MainCalls[1]
    /\ T = TypeOf(MainCalls[1])
    /\ validations = ValidatorOf(MainCalls[1])
    /\ stdin \in Sources(MainChunks, MaxLines)
    /\ InitCommon

\* one read_input as the tests run it: any validator, either target type
InitTest ==
    /\ call = "test"
    /\ T \in {"String", "u32"}
    /\ validations \in TestValidators
    /\ stdin \in Sources(TestChunks, MaxTestLines)
    /\ InitCommon

Init == InitMain \/ InitTest

Next == PrintPrompt \/ ReadFails \/ ReadReturns \/ ReadRejects \/ PrintUser

Spec == Init /\ [][Next]_vars

(***************************************************************************)
(* The predicates and Validator::validate called on their own, as the      *)
(* unit tests call them: Init draws the call, the actions make it.         *)
(***************************************************************************)
StringsOver(A, n) == UNION {[1..k -> A] : k \in 0..n}

SeqsOver(A, n) == UNION {[1..k -> A] : k \in 0..n}

\* the strings of the unit tests
TestStrings ==
    {<<"J", "o", "h", "n">>,
     <<"J", "o", "h", "n", "1", "2", "3">>,
     <<"t", "e", "s", "t", "@", "e", "x", "a", "m", "p", "l", "e", ".", "c", "o", "m">>,
     <<"i", "n", "v", "a", "l", "i", "d", "-", "e", "m", "a", "i", "l">>,
     <<"n", "o", "t", " ", "e", "m", "p", "t", "y">>,
     <<"a", "@", "b", ".", "c">>}

NameInputs == StringsOver({"n", " ", "1", "U+0663", "U+2167", "U+00BD"}, MaxLen - 1) \cup TestStrings

EmailInputs == StringsOver({"a", ".", "-", "@", "!"}, MaxLen) \cup TestStrings
                 \cup {<<"a", "@", "b", ".", "c", "\n">>, <<"a", "@", "b", ".", "U+00BD">>,
                       <<"_", "@", "1", ".", "U+0663">>}

NotEmptyInputs == StringsOver({"a", " "}, MaxLen) \cup TestStrings

ValidateInputs == StringsOver({"a", "1", "@"}, MaxLen) \cup TestStrings

InitPure ==
    /\ pc = "call"
    /\ \/ fn = "validate_name" /\ arg \in NameInputs /\ validations = <<>>
       \/ fn = "validate_email" /\ arg \in EmailInputs /\ validations = <<>>
       \/ fn = "not_empty" /\ arg \in NotEmptyInputs /\ validations = <<>>
       \/ /\ fn = "validate"
          /\ arg \in ValidateInputs
          /\ validations \in {validator_factory(ps) : ps \in SeqsOver(PredNames, MaxPreds)}
    /\ ret = FALSE
    /\ call = "none"
    /\ T = "String"
    /\ stdin = <<>>
    /\ buffer = <<>>
    /\ out = <<>>
    /\ name = <<>>
    /\ email = <<>>
    /\ age = u32_zero
    /\ src0 = <<>>
    /\ hist = <<>>
    /\ eofReads = 0

Returns(f, r) ==
    /\ pc = "call"
    /\ fn = f
    /\ ret' = r
    /\ pc' = "ret"
    /\ UNCHANGED <<call, T, validations, stdin, buffer, out, name, email, age,
                   fn, arg, src0, hist, eofReads>>

CallValidateName == Returns("validate_name", validate_name(arg))

CallValidateEmail == Returns("validate_email", validate_email(arg))

CallNotEmpty == Returns("not_empty", not_empty(arg))

CallValidate == Returns("validate", validate(validations, arg))

NextPure == CallValidateName \/ CallValidateEmail \/ CallNotEmpty \/ CallValidate

SpecPure == InitPure /\ [][NextPure]_vars

(***************************************************************************)
(* Vocabulary of the properties, stated without the operators above.       *)
(***************************************************************************)
Min(S) == CHOOSE x \in S : \A y \in S : x <= y
Max(S) == CHOOSE x \in S : \A y \in S : x >= y

\* Unicode general categories of the characters of the model
DecimalDigits == AsciiDigits \cup {"U+0663"}
LetterNumbers == {"U+2167"}
OtherNumbers == {"U+00BD"}
WhiteSpace == {" ", "\t", "\n", "\r"}

\* the text of s between its first and its last non-whitespace character
Trimmed(s) ==
    LET Ink == {i \in 1..Len(s) : s[i] \notin WhiteSpace}
    IN IF Ink = {} THEN <<>> ELSE SubSeq(s, Min(Ink), Max(Ink))

\* the first line of src, its newline included; all of src if it has no newline
FirstLine(src) ==
    LET Ends == {i \in 1..Len(src) : src[i] = "\n"}
    IN IF Ends = {} THEN src ELSE SubSeq(src, 1, Min(Ends))

\* src without its first line
AfterFirstLine(src) == SubSeq(src, Len(FirstLine(src)) + 1, Len(src))

\* t without an optional leading '+' and without leading zeros (one digit is kept)
Digits(t) == IF t # <<>> /\ t[1] = "+" THEN Tail(t) ELSE t
Canonical(t) ==
    LET d == Digits(t)
        NonZero == {i \in 1..Len(d) : d[i] # "0"}
    IN IF NonZero = {} THEN <<"0">> ELSE SubSeq(d, Min(NonZero), Len(d))

U32MaxText == <<"4", "2", "9", "4", "9", "6", "7", "2", "9", "5">>

\* a is at most b, for digit strings of the same length
DigitsLeq(a, b) ==
    \/ a = b
    \/ \E i \in 1..Len(a) :
          /\ \A j \in 1..(i - 1) : a[j] = b[j]
          /\ to_digit(a[i]) < to_digit(b[i])

\* t is the decimal text of an unsigned 32-bit integer
IsU32Text(t) ==
    \E d \in {Digits(t)} :
        /\ d # <<>>
        /\ \A i \in 1..Len(d) : d[i] \in AsciiDigits
        /\ \E c \in {Canonical(t)} :
              \/ Len(c) < Len(U32MaxText)
              \/ Len(c) = Len(U32MaxText) /\ DigitsLeq(c, U32MaxText)

\* t parses into the target type
Parses(ty, t) == ty = "String" \/ IsU32Text(t)

\* every predicate of v passes on t
AllPass(v, t) == \A i \in 1..Len(v) : Apply(v[i], t)

\* s has the shape local@domain.tld
HasEmailShape(s) ==
    \E i \in 1..Len(s), j \in 1..Len(s) :
        /\ 1 < i /\ i + 1 < j /\ j < Len(s)
        /\ s[i] = "@"
        /\ s[j] = "."
        /\ \A k \in 1..(i - 1) : is_word(s[k]) \/ s[k] \in {".", "-"}
        /\ \A k \in (i + 1)..(j - 1) : is_word(s[k]) \/ s[k] \in {".", "-"}
        /\ \A k \in (j + 1)..Len(s) : is_word(s[k])

\* the iterations of read_input that read a line (or the end of input)
Iterations == {i \in 1..Len(hist) : hist[i].outcome # "panic"}
Returned == {i \in 1..Len(hist) : hist[i].outcome = "return"}
\* the line iteration i read, and its trimmed text
LineOf(i) == FirstLine(hist[i].before)
TextOf(i) == Trimmed(LineOf(i))
\* the value read_input returned in iteration i, as text
ReturnedText(i) ==
    CASE hist[i].call = "name" -> name
      [] hist[i].call = "email" -> email
      [] hist[i].call = "age" -> to_string(age)
      [] hist[i].call = "test" -> IF ret.ty = "String" THEN ret.str ELSE to_string(ret.num)

(***************************************************************************)
(* C1: whenever read_input returns a value, that value is the parse of the *)
(* trimmed text of the line read in the final iteration alone, and that    *)
(* text parses into T and passes every predicate of the validator.         *)
(***************************************************************************)
C1_ReturnedValueIsParsedTrimmedLine ==
    \A i \in Returned :
        /\ Parses(hist[i].ty, TextOf(i))
        /\ AllPass(hist[i].v, TextOf(i))
        /\ ReturnedText(i) =
              IF hist[i].ty = "String" THEN TextOf(i) ELSE Canonical(TextOf(i))
        /\ hist[i].call = "test" => ret.ty = hist[i].ty
        /\ hist[i].raw = LineOf(i)

\* a line with whitespace around it is returned after an earlier line was rejected
C1_Witness ==
    /\ pc = "done"
    /\ Len(hist) >= 2
    /\ hist[1].outcome \in {"invalid", "convert"}
    /\ hist[Len(hist)].outcome = "return"
    /\ LineOf(Len(hist)) # TextOf(Len(hist)) \o <<"\n">>
    /\ ReturnedText(Len(hist)) # TextOf(Len(hist))

(***************************************************************************)
(* C2: a read at end of input (no remaining line) aborts the process; it   *)
(* is never answered with a diagnostic and a re-prompt.                    *)
(***************************************************************************)
C2_ReadAtEndOfInputAborts ==
    \A i \in 1..Len(hist) : hist[i].eof => hist[i].outcome = "panic"

(***************************************************************************)
(* C3: every rejected line yields exactly one diagnostic followed by a     *)
(* re-prompt; the diagnostic is "Failed to convert value" iff the trimmed  *)
(* text does not parse (the validator is then not consulted) and           *)
(* "Invalid input" iff it parses and the validator returns false.          *)
(***************************************************************************)
IsPrompt(l) == \E c \in {"name", "email", "age", "test"} : l = PromptOf(c)
IsDiagnostic(l) == l \in {MsgInvalid, MsgConvert}
RejectedIterations == SelectSeq(hist, LAMBDA h : h.outcome \in {"invalid", "convert"})
Diagnostics == SelectSeq(out, IsDiagnostic)

C3_DiagnosticMatchesFailure ==
    /\ \A i \in Iterations :
          /\ hist[i].outcome = "convert" <=> ~Parses(hist[i].ty, TextOf(i))
          /\ hist[i].outcome = "invalid" <=>
                (Parses(hist[i].ty, TextOf(i)) /\ ~AllPass(hist[i].v, TextOf(i)))
          /\ hist[i].validated <=> Parses(hist[i].ty, TextOf(i))
    /\ Len(Diagnostics) = Len(RejectedIterations)
    /\ \A k \in 1..Len(Diagnostics) :
          Diagnostics[k] = IF RejectedIterations[k].outcome = "invalid"
                           THEN MsgInvalid ELSE MsgConvert
    /\ \A i \in 1..Len(out) : IsDiagnostic(out[i]) =>
          /\ i > 1 /\ IsPrompt(out[i - 1])
          /\ i < Len(out) => out[i + 1] = out[i - 1]
          /\ i = Len(out) => pc = "prompt" /\ out[i - 1] = PromptOf(call)

\* both kinds of diagnostic have been printed, each followed by a prompt
C3_Witness ==
    /\ \E i \in 1..(Len(out) - 1) : out[i] = MsgInvalid
    /\ \E i \in 1..(Len(out) - 1) : out[i] = MsgConvert
    /\ \E i \in Iterations : hist[i].outcome = "convert" /\ ~hist[i].validated

(***************************************************************************)
(* C4: in main the three prompting loops run in the order name, email,     *)
(* age: no email prompt before a name was accepted, no age prompt before   *)
(* an email was accepted; the summary line is printed exactly once, only   *)
(* after all three were accepted, and carries the three returned values,   *)
(* each of which passed its own validator set.                             *)
(***************************************************************************)
AcceptedFor(c) == {i \in Returned : hist[i].call = c}
PromptsOf(c) == {i \in 1..Len(out) : out[i] = PromptOf(c)}
IsSummary(l) == Len(l) > 0 /\ l[1] = "Name: "
Summaries == {i \in 1..Len(out) : IsSummary(out[i])}

C4_MainSequence ==
    call # "test" =>
        /\ PromptsOf("email") # {} => AcceptedFor("name") # {}
        /\ PromptsOf("age") # {} => AcceptedFor("email") # {}
        /\ \A i \in PromptsOf("name"), j \in PromptsOf("email") : i < j
        /\ \A i \in PromptsOf("email"), j \in PromptsOf("age") : i < j
        /\ Cardinality(Summaries) <= 1
        /\ pc = "done" <=> Cardinality(Summaries) = 1
        /\ \A i \in Summaries :
              /\ i = Len(out)
              /\ \A c \in {"name", "email", "age"} : Cardinality(AcceptedFor(c)) = 1
              /\ \E n \in AcceptedFor("name"), e \in AcceptedFor("email"), a \in AcceptedFor("age") :
                    /\ n < e /\ e < a
                    /\ out[i] = <<"Name: ">> \o TextOf(n) \o <<", Email: ">> \o TextOf(e)
                                   \o <<", Age: ">> \o Canonical(TextOf(a))
                    /\ TextOf(n) # <<>>
                    /\ \A k \in 1..Len(TextOf(n)) :
                          TextOf(n)[k] \notin DecimalDigits \cup LetterNumbers \cup OtherNumbers
                    /\ TextOf(e) # <<>> /\ HasEmailShape(TextOf(e))
                    /\ IsU32Text(TextOf(a))

\* main has printed the summary, and the age it shows is not the text typed
C4_Witness ==
    /\ call # "test"
    /\ pc = "done"
    /\ Summaries # {}
    /\ \E a \in AcceptedFor("age") : TextOf(a) # to_string(age)

(***************************************************************************)
(* C8: a prompting loop whose first acceptable line is the k-th line of    *)
(* its source returns after exactly k iterations, having consumed exactly  *)
(* k lines (the lines after it stay in the source), printed k prompts and  *)
(* k - 1 diagnostics.                                                      *)
(***************************************************************************)
HasReadError(l) == \E i \in 1..Len(l) : l[i] = "0xFF"
Acceptable(ty, v, l) ==
    ~HasReadError(l) /\ \E t \in {Trimmed(l)} : Parses(ty, t) /\ AllPass(v, t)

\* the iterations of the c-th call, and the slice of the output it printed
IterationsOf(c) == {i \in 1..Len(hist) : hist[i].call = c}
FirstPrompt(c) == Min(PromptsOf(c))
LastPrompt(c) == Max(PromptsOf(c))

C8_ReturnsAtFirstAcceptableLine ==
    /\ \A i \in 1..Len(hist) :
          \* iteration i read the line that follows the one iteration i - 1 read
          /\ i > 1 => hist[i].before = AfterFirstLine(hist[i - 1].before)
          /\ i = Len(hist) => stdin = AfterFirstLine(hist[i].before)
          \* and it returned exactly if that line is acceptable
          /\ hist[i].outcome = "return" <=> Acceptable(hist[i].ty, hist[i].v, LineOf(i))
          /\ hist[i].outcome = "panic" <=> HasReadError(LineOf(i))
    /\ \A r \in Returned :
          LET c == hist[r].call
              k == Cardinality(IterationsOf(c))
          IN /\ r = Max(IterationsOf(c))
             /\ \A i \in IterationsOf(c) \ {r} :
                   ~Acceptable(hist[i].ty, hist[i].v, LineOf(i))
             /\ Cardinality(PromptsOf(c)) = k
             /\ Cardinality({j \in FirstPrompt(c)..LastPrompt(c) : IsDiagnostic(out[j])}) = k - 1
             /\ \A j \in (LastPrompt(c) + 1)..Len(out) : ~IsDiagnostic(out[j]) \/ call # c
    /\ (hist = <<>>) => stdin = src0

\* a loop returned at its third line and left a later line in the source
C8_Witness ==
    \E r \in Returned :
        /\ hist[r].call = "name"
        /\ Cardinality(IterationsOf("name")) = 3
        /\ call = "email"
        /\ stdin # <<>>
        /\ PromptsOf("email") = {}

(***************************************************************************)
(* C10: during the age prompt the validator {not_empty} never rejects a    *)
(* line that parsed: every rejected age line, an empty or whitespace-only  *)
(* one included, gets "Failed to convert value", "Invalid input" is never  *)
(* printed, and a line is accepted exactly when its trimmed text parses as *)
(* an unsigned 32-bit integer.                                             *)
(***************************************************************************)
IsAgePrompt(i) ==
    hist[i].call = "age" \/ (hist[i].ty = "u32" /\ hist[i].v = <<"not_empty">>)

C10_AgeRejectsOnlyByParse ==
    /\ \A i \in Iterations : IsAgePrompt(i) =>
          /\ hist[i].outcome # "invalid"
          /\ hist[i].outcome = "return" <=> IsU32Text(TextOf(i))
          /\ hist[i].outcome = "convert" <=> ~IsU32Text(TextOf(i))
    /\ \A i \in PromptsOf("age") :
          \A j \in i..Len(out) : out[j] # MsgInvalid
    /\ (call = "test" /\ T = "u32" /\ validations = <<"not_empty">>) =>
          \A j \in 1..Len(out) : out[j] # MsgInvalid

\* a whitespace-only line and an out-of-range number were both rejected as age
C10_Witness ==
    /\ \E i \in Iterations :
          hist[i].call = "age" /\ LineOf(i) # <<>> /\ TextOf(i) = <<>> /\ hist[i].outcome = "convert"
    /\ \E i \in Iterations :
          hist[i].call = "age" /\ Len(TextOf(i)) = 10 /\ hist[i].outcome = "convert"

(***************************************************************************)
(* C5: Validator::validate returns true iff every stored predicate returns *)
(* true on the input; it returns true for an empty list, and the result    *)
(* does not depend on the order of the predicates.                         *)
(***************************************************************************)
Orderings(n) == {f \in [1..n -> 1..n] : \A i, j \in 1..n : f[i] = f[j] => i = j}

C5_ValidateIsConjunction ==
    (pc = "ret" /\ fn = "validate") =>
        /\ ret = (\A i \in 1..Len(validations) : Apply(validations[i], arg))
        /\ validations = <<>> => ret = TRUE
        /\ \A f \in Orderings(Len(validations)) :
              ret = (\A i \in 1..Len(validations) : Apply(validations[f[i]], arg))
        /\ validations = <<"not_empty", "validate_name">> =>
              /\ arg = <<"J", "o", "h", "n">> => ret = TRUE
              /\ arg = <<"J", "o", "h", "n", "1", "2", "3">> => ret = FALSE
              /\ arg = <<>> => ret = FALSE

\* {not_empty, validate_name} has rejected "John123" on its second predicate
C5_Witness ==
    /\ pc = "ret"
    /\ fn = "validate"
    /\ validations = <<"not_empty", "validate_name">>
    /\ arg = <<"J", "o", "h", "n", "1", "2", "3">>
    /\ ret = FALSE

(***************************************************************************)
(* C6 as stated: validate_name(s) is false for every s that holds a decimal *)
(* digit and true for every s that holds none.                             *)
(***************************************************************************)
C6_RejectsExactlyDecimalDigits ==
    (pc = "ret" /\ fn = "validate_name") =>
        ret = ~(\E i \in 1..Len(arg) : arg[i] \in DecimalDigits)

(***************************************************************************)
(* C6 amended: validate_name(s) is false for every s that holds a          *)
(* character with the Unicode Numeric property (categories Nd, Nl, No: the *)
(* decimal digits, and also letter numbers and other numbers), and true    *)
(* for every other s, the empty string included.                           *)
(***************************************************************************)
C6_RejectsExactlyNumeric ==
    (pc = "ret" /\ fn = "validate_name") =>
        ret = ~(\E i \in 1..Len(arg) :
                   arg[i] \in DecimalDigits \cup LetterNumbers \cup OtherNumbers)

\* a name with a numeric character that is no decimal digit has been rejected,
\* after characters that are not numeric
C6_Witness ==
    /\ pc = "ret"
    /\ fn = "validate_name"
    /\ Len(arg) >= 2
    /\ arg[1] = "n"
    /\ \E i \in 1..Len(arg) : arg[i] \in LetterNumbers \cup OtherNumbers
    /\ \A i \in 1..Len(arg) : arg[i] \notin DecimalDigits
    /\ ret = FALSE

(***************************************************************************)
(* C7: validate_email(s) is true iff the whole of s has the shape          *)
(* local@domain.tld, local and domain of one or more word characters, '.'  *)
(* or '-', tld of one or more word characters; a string without '@',       *)
(* without the final '.tld', or with a character outside these classes     *)
(* anywhere is rejected.                                                   *)
(***************************************************************************)
C7_EmailShape ==
    (pc = "ret" /\ fn = "validate_email") =>
        /\ ret = HasEmailShape(arg)
        /\ (\A i \in 1..Len(arg) : arg[i] # "@") => ret = FALSE
        /\ (\E i \in 1..Len(arg) : ~is_word(arg[i]) /\ arg[i] \notin {".", "-", "@"})
              => ret = FALSE
        /\ (arg # <<>> /\ ~is_word(arg[Len(arg)])) => ret = FALSE
        /\ arg = <<"t", "e", "s", "t", "@", "e", "x", "a", "m", "p", "l", "e", ".", "c", "o", "m">> => ret = TRUE
        /\ arg = <<"i", "n", "v", "a", "l", "i", "d", "-", "e", "m", "a", "i", "l">> => ret = FALSE

\* an address was accepted whose domain has a dot of its own
C7_Witness ==
    /\ pc = "ret"
    /\ fn = "validate_email"
    /\ ret = TRUE
    /\ Cardinality({i \in 1..Len(arg) : arg[i] = "."}) >= 2
    /\ Cardinality({i \in 1..Len(arg) : arg[i] = "@"}) = 1

(***************************************************************************)
(* C9: the prompting loop has no retry cap.  After a rejected line it      *)
(* always re-prompts; it is left only by returning an accepted value or by *)
(* the abort on a failed read; so a loop whose source still holds an       *)
(* acceptable line (with no unreadable line before it) eventually returns, *)
(* and a loop that is given rejected lines only never returns.             *)
(***************************************************************************)
InLoop == pc \in {"prompt", "read"}

RECURSIVE AcceptablePending(_, _, _)
\* src holds an acceptable line, or ends acceptably, and nothing unreadable before it
AcceptablePending(ty, v, src) ==
    IF src = <<>> THEN Acceptable(ty, v, <<>>)
    ELSE \E l \in {FirstLine(src)} :
            IF HasReadError(l) THEN FALSE
            ELSE IF Acceptable(ty, v, l) THEN TRUE
            ELSE \E rest \in {AfterFirstLine(src)} : AcceptablePending(ty, v, rest)

Pending == InLoop /\ AcceptablePending(T, validations, stdin)

C9_NoRetryCap ==
    /\ [][ (InLoop /\ hist' # hist) =>
             \A h \in {hist'[Len(hist')]} : \A l \in {FirstLine(h.before)} :
                /\ h.outcome \in {"invalid", "convert"} => (pc' = "prompt" /\ call' = call)
                /\ (~InLoop' \/ call' # call) =>
                      \/ h.outcome = "return" /\ Acceptable(h.ty, h.v, l)
                      \/ h.outcome = "panic" /\ pc' = "aborted" /\ HasReadError(l) ]_vars
    /\ [][ (InLoop /\ hist' = hist) => (InLoop' /\ call' = call) ]_vars
    /\ [][ (Pending /\ ~Pending') => hist'[Len(hist')].outcome = "return" ]_vars
    /\ Pending ~> ~Pending

\* a loop has returned at its fourth line, after three rejected lines
C9_Witness ==
    \E r \in Returned :
        /\ Cardinality(IterationsOf(hist[r].call)) = 4
        /\ \A i \in IterationsOf(hist[r].call) \ {r} : hist[i].outcome \in {"invalid", "convert"}

\* the program keeps running: no step that is possible is put off forever
SpecLive == Spec /\ WF_vars(Next)

====
